---- MODULE Spec2Model ----
(***************************************************************************)
(* Model of the autoscout24 scraper: the crawl pipeline of                 *)
(* ListingExtractor (seed expansion, bounded worker pool, collection), the *)
(* round-robin ProxyManager, DealerExtractor.build_summary, the start-up   *)
(* and export sequence of main, and the list fields of normalize_listing.  *)
(*                                                                         *)
(* Strings are modelled as sequences of tokens (characters, or path        *)
(* segments for URLs) so that strip, split and the substring test of       *)
(* _is_detail_url are computed, not assumed.  Python's None is the         *)
(* sentinel sequence None, which no input string equals.                   *)
(***************************************************************************)
EXTENDS Integers, Sequences, FiniteSets, TLC

VARIABLES
    \* ---- ListingExtractor.scrape -------------------------------------
    start_urls,         \* the seeds handed to scrape()
    max_records,        \* self.max_records
    parallel_requests,  \* self.parallel_requests, after max(1, .)
    parallel_arg,       \* the parallel_requests given to __init__
    web,                \* what each search page holds (anchors, next link)
    pc,                 \* position of the thread that called scrape()
    seed_i,             \* index of the seed the for-loop is at
    listing_urls,       \* accumulator of _prepare_listing_urls
    collected,          \* listing_urls of _collect_listing_urls_from_search
    visited_pages,      \* visited_pages of the same
    next_url,           \* next_url of the same
    urls,               \* the prepared list scrape() dispatches
    futures,            \* one entry per submitted task
    results,            \* results of scrape()
    gets,               \* history: every HTTP GET issued, in order
    \* ---- ProxyManager -------------------------------------------------
    proxies_arg,        \* the explicit list given to __init__
    env,                \* os.environ: HTTP_PROXIES, HTTPS_PROXIES
    _proxies,           \* self._proxies
    _iterator,          \* self._iterator: None, or <<"cycle", position>>
    _lock,              \* holder of self._lock, or 0
    tpc,                \* position of each thread inside get_next
    tproxy,             \* local variable proxy of each thread
    calls,              \* history: every next(self._iterator), in order
    returned,           \* history: what each finished get_next returned
    \* ---- DealerExtractor.build_summary --------------------------------
    listings,           \* the record sequence given to build_summary
    rec_i,              \* index of the record the for-loop is at
    summary,            \* summary
    counter,            \* counter
    \* ---- main ---------------------------------------------------------
    main_pc,            \* position of main()
    config_file,        \* the settings JSON file
    input_file,         \* the --input JSON file
    txt_file,           \* the lines of data/test_urls.txt
    settings,           \* settings, once merged
    output_format,      \* output_format
    \* ---- normalize_listing --------------------------------------------
    raw_record,         \* the dict given to normalize_listing
    listing,            \* listing, the copy being normalized
    norm_pc             \* position inside normalize_listing

scrapeVars == <<start_urls, max_records, parallel_requests, parallel_arg, web, pc, seed_i,
                listing_urls, collected, visited_pages, next_url, urls,
                futures, results, gets>>
proxyVars  == <<proxies_arg, env, _proxies, _iterator, _lock, tpc, tproxy,
                calls, returned>>
dealerVars == <<listings, rec_i, summary, counter>>
mainVars   == <<main_pc, config_file, input_file, txt_file, settings, output_format>>
normVars   == <<raw_record, listing, norm_pc>>
vars == <<scrapeVars, proxyVars, dealerVars, mainVars, normVars>>

(***************************************************************************)
(* Bounds of the model.                                                    *)
(***************************************************************************)
MaxSeeds == 2       \* longest seed list
MaxCap == 2         \* largest max_records
MaxExplicit == 2    \* longest explicit proxy list
MaxEnvLen == 2      \* longest environment value, in characters
MaxCalls == 3       \* get_next calls in a proxy run
MaxListings == 3    \* longest record sequence given to build_summary

(***************************************************************************)
(* Python values and string helpers.                                       *)
(***************************************************************************)
None == <<"None">>

\* bool(v) of an Optional[str] or a list
Truthy(v) == v # None /\ v # <<>>

Range(s) == {s[k] : k \in 1..Len(s)}

RECURSIVE lstrip(_)
lstrip(s) == IF s # <<>> /\ Head(s) = " " THEN lstrip(Tail(s)) ELSE s

RECURSIVE rstrip(_)
rstrip(s) ==
    IF s # <<>> /\ s[Len(s)] = " " THEN rstrip(SubSeq(s, 1, Len(s) - 1)) ELSE s

\* str.strip()
strip(s) == rstrip(lstrip(s))

\* an append without the membership test
AppendAlways(l, u) == Append(l, u)

\* "if u not in l: l.append(u)"
AppendNew(l, u) == IF u \in Range(l) THEN l ELSE Append(l, u)

\* "for u in us: if u not in l: l.append(u)"
RECURSIVE Merge(_, _)
Merge(l, us) == IF us = <<>> THEN l ELSE Merge(AppendNew(l, Head(us)), Tail(us))

\* all sequences over S of length at most n
SeqsUpTo(S, n) == UNION {[1..k -> S] : k \in 0..n}

(***************************************************************************)
(* URLs: the sequence of path segments.                                    *)
(***************************************************************************)
d1 == <<"offers", "1">>
d2 == <<"Angebote", "2">>
d3 == <<"offers", "3">>
s1 == <<"lst", "1">>
s2 == <<"lst", "2">>

PageUrls == {s1, s2}

\* str.lower() on the segments the model uses
lower(tok) ==
    IF tok = "Angebote" THEN "angebote"
    ELSE IF tok = "CSV" THEN "csv"
    ELSE tok

\* "/angebote/" in path or "/offers/" in path: a segment that is followed by
\* a slash, so not the last one
_is_detail_url(url) ==
    \E k \in 1..(Len(url) - 1) : lower(url[k]) \in {"angebote", "offers"}

\* the seeds a caller may give: the search pages, a detail page padded with
\* blanks, and a blank line
SeedChoices == {s1, s2, <<" ">> \o d2 \o <<" ">>, <<" ">>}

\* the sites crawled: the anchors of each search page, in document order and
\* before de-duplication, and its next link (none, itself, the other page)
Webs ==
    {w \in [PageUrls -> [anchors : {<<d1, d2, d1>>, <<d3>>, <<d2, d3>>},
                         next : {None} \cup PageUrls]] :
        /\ w[s1].anchors \in {<<d1, d2, d1>>, <<d3>>}
        /\ w[s2].anchors = <<d2, d3>>
        /\ w[s2].next # s2}

\* ListingParser.parse_search_page: the anchors de-duplicated, and the next link
parse_search_page(page) == <<Merge(<<>>, web[page].anchors), web[page].next>>

(***************************************************************************)
(* ProxyManager.                                                           *)
(***************************************************************************)
\* str.split(","): the pieces between commas
RECURSIVE split(_, _)
split(s, cur) ==
    IF s = <<>> THEN <<cur>>
    ELSE IF Head(s) = "," THEN <<cur>> \o split(Tail(s), <<>>)
    ELSE split(Tail(s), Append(cur, Head(s)))

RECURSIVE StripAll(_)
StripAll(ps) == IF ps = <<>> THEN <<>> ELSE <<strip(Head(ps))>> \o StripAll(Tail(ps))

NonEmpty(p) == p # <<>>

\* p.strip() for p in raw.split(",") if p.strip()
EnvEntries(raw) ==
    IF Truthy(raw) THEN SelectSeq(StripAll(split(raw, <<>>)), NonEmpty) ELSE <<>>

\* [p for p in all_proxies if p]
KeepProxy(p) == p # <<>>

\* ProxyManager.__init__: self._proxies; explicit is list(proxies or []), and
\* use_env keeps its default, as at every call in the repository
InitProxies(explicit, environ) ==
    LET env_proxies == EnvEntries(environ.HTTP_PROXIES) \o EnvEntries(environ.HTTPS_PROXIES)
        all_proxies == explicit \o env_proxies
    IN  SelectSeq(all_proxies, KeepProxy)

\* ProxyManager.__init__: self._iterator (the position of itertools.cycle)
InitIterator(ps) == IF ps # <<>> THEN <<"cycle", 0>> ELSE None

\* a cycle that never moves on
CycleStuck(it, n) == it

\* next(self._iterator): the cycle after the element was handed out
CycleAdvance(it, n) == <<"cycle", (it[2] + 1) % n>>

\* next(self._iterator): the element handed out
CycleItem(ps, it) == ps[it[2] + 1]

(***************************************************************************)
(* ListingExtractor: preparation of the URL list.                          *)
(***************************************************************************)
\* the outcomes of one session.get + raise_for_status + resp.text
\*   "error"  a requests.RequestException (connection, timeout, non-2xx)
\*   "empty"  a 2xx response whose text is ""
\*   "ok"     a 2xx response with a body
\*   "fault"  any other exception, which _fetch_url does not catch
Responses == {"error", "empty", "ok", "fault"}

\* _fetch_url's proxy_manager.get_next(), seen from one caller: the lock makes
\* the advance of the cursor one step
FetchAdvance == IF _iterator = None THEN None ELSE CycleAdvance(_iterator, Len(_proxies))

LogGet(url, stage, resp) ==
    Append(gets, [url |-> url, stage |-> stage, seed |-> seed_i, resp |-> resp,
                  acc |-> Len(listing_urls)])

\* a slice that is never taken
NoTruncate(l, n) == l

\* a slice that keeps the tail
TruncateTail(l, n) == IF Len(l) > n THEN SubSeq(l, Len(l) - n + 1, Len(l)) ELSE l

\* listing_urls[: self.max_records]
Truncate(l, n) == IF Len(l) > n THEN SubSeq(l, 1, n) ELSE l

\* lines 103-104: the cap check that ends the for-loop
CapReached(l) == Len(l) >= max_records

\* where the for-loop of _prepare_listing_urls goes after a "continue"
NextSeed ==
    /\ seed_i' = seed_i + 1
    /\ pc' = IF seed_i + 1 > Len(start_urls) THEN "truncate" ELSE "prepare"

\* an expansion whose result is thrown away
ExpansionDropped(us) ==
    /\ listing_urls' = listing_urls
    /\ IF CapReached(listing_urls)
          THEN pc' = "truncate" /\ seed_i' = seed_i
          ELSE NextSeed

\* lines 99-104: the expansion returned us; merge, then check the cap
ExpansionReturns(us) ==
    /\ listing_urls' = Merge(listing_urls, us)
    /\ IF CapReached(Merge(listing_urls, us))
          THEN pc' = "truncate" /\ seed_i' = seed_i
          ELSE NextSeed

\* lines 87-98: one seed of the for-loop: skipped, kept, or its expansion begun
PrepareSeed ==
    /\ pc = "prepare"
    /\ seed_i <= Len(start_urls)
    /\ LET start_url == strip(start_urls[seed_i]) IN
         IF ~Truthy(start_url)
            THEN /\ NextSeed
                 /\ UNCHANGED <<listing_urls, collected, visited_pages, next_url>>
         ELSE IF _is_detail_url(start_url)
            THEN /\ listing_urls' = AppendNew(listing_urls, start_url)
                 /\ NextSeed
                 /\ UNCHANGED <<collected, visited_pages, next_url>>
         ELSE /\ pc' = "expand"
              /\ collected' = <<>>
              /\ visited_pages' = {}
              /\ next_url' = start_url
              /\ UNCHANGED <<seed_i, listing_urls>>
    /\ UNCHANGED <<start_urls, max_records, parallel_requests, parallel_arg, web, urls,
                   futures, results, gets>>
    /\ UNCHANGED <<proxyVars, dealerVars, mainVars, normVars>>

\* a while condition without the cap
LoopNoCap == Truthy(next_url)

\* line 67: the while condition
LoopCondition == Truthy(next_url) /\ Len(collected) < max_records

\* a visited check that never fires
NeverVisited == FALSE

\* line 68: the visited check
AlreadyVisited == next_url \in visited_pages

\* lines 67-69, 83: the loop ends at its condition or at the visited check
ExpandStop ==
    /\ pc = "expand"
    /\ ~LoopCondition \/ AlreadyVisited
    /\ ExpansionReturns(collected)
    /\ UNCHANGED <<start_urls, max_records, parallel_requests, parallel_arg, web, collected,
                   visited_pages, next_url, urls, futures, results, gets>>
    /\ UNCHANGED <<proxyVars, dealerVars, mainVars, normVars>>

\* lines 70-81: one page: fetched, parsed, its URLs appended
ExpandPage(resp, parse_ok) ==
    /\ pc = "expand"
    /\ LoopCondition /\ ~AlreadyVisited
    /\ visited_pages' = visited_pages \cup {next_url}
    /\ _iterator' = FetchAdvance
    /\ gets' = LogGet(next_url, "search", resp)
    /\ IF resp = "fault" \/ (resp = "ok" /\ ~parse_ok)
          THEN \* the exception leaves _prepare_listing_urls and scrape
               /\ pc' = "raised"
               /\ UNCHANGED <<seed_i, listing_urls, collected, next_url>>
       ELSE IF resp # "ok"
          THEN \* "if not html: break"
               /\ ExpansionReturns(collected)
               /\ UNCHANGED <<collected, next_url>>
       ELSE LET parsed == parse_search_page(next_url)
                merged == Merge(collected, parsed[1])
            IN  /\ collected' = merged
                /\ next_url' = parsed[2]
                /\ IF ~Truthy(parsed[2])
                      THEN ExpansionReturns(merged)
                      ELSE UNCHANGED <<pc, seed_i, listing_urls>>
    /\ UNCHANGED <<start_urls, max_records, parallel_requests, parallel_arg, web, urls,
                   futures, results>>
    /\ UNCHANGED <<proxies_arg, env, _proxies, _lock, tpc, tproxy, calls, returned>>
    /\ UNCHANGED <<dealerVars, mainVars, normVars>>

Expand == \E resp \in Responses, parse_ok \in BOOLEAN : ExpandPage(resp, parse_ok)

(***************************************************************************)
(* ListingExtractor.scrape: the worker pool.                               *)
(***************************************************************************)
\* what one _scrape_single_listing does after its GET
\*   "error", "empty"  html is falsy: returns None
\*   "fault"           _fetch_url raised
\*   "parse_fault"     a body arrived, parse_listing_page or normalize raised
\*   "record"          a body arrived and became a record
Outcomes == {"error", "empty", "fault", "parse_fault", "record"}

\* lines 117-119: "if not html: return None"
HtmlFalsy(outcome) == outcome \in {"error", "empty"}

\* the state of the future once its task has ended
FutureOf(outcome) ==
    IF HtmlFalsy(outcome) THEN "None"
    ELSE IF outcome = "record" THEN "record"
    ELSE "exception"

Running == {k \in 1..Len(futures) : futures[k].state = "running"}

\* lines 106-137: truncate, return [] when empty, else submit every URL
Dispatch ==
    /\ pc = "truncate"
    /\ urls' = Truncate(listing_urls, max_records)
    /\ IF Truncate(listing_urls, max_records) = <<>>
          THEN pc' = "done" /\ futures' = <<>>
          ELSE /\ pc' = "pool"
               /\ futures' = [k \in 1..Len(Truncate(listing_urls, max_records)) |->
                                [state |-> "pending", outcome |-> "none",
                                 taken |-> FALSE]]
    /\ results' = <<>>
    /\ UNCHANGED <<start_urls, max_records, parallel_requests, parallel_arg, web, seed_i,
                   listing_urls, collected, visited_pages, next_url, gets>>
    /\ UNCHANGED <<proxyVars, dealerVars, mainVars, normVars>>

\* a pool thread takes the oldest queued task and issues its GET
WorkerStart(k) ==
    /\ pc = "pool"
    /\ futures[k].state = "pending"
    /\ \A j \in 1..(k - 1) : futures[j].state # "pending"
    /\ Cardinality(Running) < parallel_requests
    /\ futures' = [futures EXCEPT ![k].state = "running"]
    /\ _iterator' = FetchAdvance
    /\ gets' = LogGet(urls[k], "detail", "sent")
    /\ UNCHANGED <<start_urls, max_records, parallel_requests, parallel_arg, web, pc, seed_i,
                   listing_urls, collected, visited_pages, next_url, urls, results>>
    /\ UNCHANGED <<proxies_arg, env, _proxies, _lock, tpc, tproxy, calls, returned>>
    /\ UNCHANGED <<dealerVars, mainVars, normVars>>

\* lines 116-121: the rest of the task, which sets the future
WorkerFinish(k, outcome) ==
    /\ pc = "pool"
    /\ futures[k].state = "running"
    /\ futures' = [futures EXCEPT ![k].state = FutureOf(outcome),
                                  ![k].outcome = outcome]
    /\ UNCHANGED <<start_urls, max_records, parallel_requests, parallel_arg, web, pc, seed_i,
                   listing_urls, collected, visited_pages, next_url, urls,
                   results, gets>>
    /\ UNCHANGED <<proxyVars, dealerVars, mainVars, normVars>>

\* a future taken for finished whatever its state
AlwaysFinished(k) == TRUE

\* as_completed yields a future once its task has ended
Finished(k) == futures[k].state \in {"None", "record", "exception"}

\* "if record: results.append(record)"; the record carries the URL
Collected(res, k) ==
    IF futures[k].state = "record" THEN Append(res, [url |-> urls[k]]) ELSE res

\* lines 139-148: as_completed yields a finished future
Collect(k) ==
    /\ pc = "pool"
    /\ Finished(k)
    /\ ~futures[k].taken
    /\ futures' = [futures EXCEPT ![k].taken = TRUE]
    /\ results' = Collected(results, k)
    /\ UNCHANGED <<start_urls, max_records, parallel_requests, parallel_arg, web, pc, seed_i,
                   listing_urls, collected, visited_pages, next_url, urls, gets>>
    /\ UNCHANGED <<proxyVars, dealerVars, mainVars, normVars>>

\* lines 150-151: every future was yielded; the executor is left and results returned
Return ==
    /\ pc = "pool"
    /\ \A k \in 1..Len(futures) : futures[k].taken
    /\ pc' = "done"
    /\ UNCHANGED <<start_urls, max_records, parallel_requests, parallel_arg, web, seed_i,
                   listing_urls, collected, visited_pages, next_url, urls,
                   futures, results, gets>>
    /\ UNCHANGED <<proxyVars, dealerVars, mainVars, normVars>>

Start == \E k \in 1..Len(futures) : WorkerStart(k)

Finish == \E k \in 1..Len(futures), outcome \in Outcomes : WorkerFinish(k, outcome)

Gather == \E k \in 1..Len(futures) : Collect(k)

\* values of the variables a specification does not use
IdleProxy ==
    /\ proxies_arg = <<>> /\ env = [HTTP_PROXIES |-> None, HTTPS_PROXIES |-> None]
    /\ _proxies = <<>> /\ _iterator = None /\ _lock = 0
    /\ tpc = <<>> /\ tproxy = <<>> /\ calls = <<>> /\ returned = <<>>

IdleDealer == listings = <<>> /\ rec_i = 1 /\ summary = <<>> /\ counter = <<>>

IdleMain ==
    /\ main_pc = "idle" /\ config_file = <<>> /\ input_file = <<>>
    /\ txt_file = <<>> /\ settings = <<>> /\ output_format = None

IdleNorm == raw_record = <<>> /\ listing = <<>> /\ norm_pc = "idle"

IdleScrape ==
    /\ start_urls = <<>> /\ max_records = 1 /\ parallel_requests = 1
    /\ parallel_arg = 1
    /\ web = <<>> /\ pc = "idle" /\ seed_i = 1 /\ listing_urls = <<>>
    /\ collected = <<>> /\ visited_pages = {} /\ next_url = None
    /\ urls = <<>> /\ futures = <<>> /\ results = <<>> /\ gets = <<>>

\* the configured parallelRequests values tried
ParallelChoices == {0, 2}

\* a floor that is not applied
NoFloor(p) == p

\* line 30: max(1, parallel_requests)
WorkerCount(p) == IF 1 >= p THEN 1 ELSE p

\* the proxies of a scrape run
ScrapeProxies == <<<<"p", "1">>, <<"p", "2">>>>

\* ListingExtractor.__init__ and the call of scrape(start_urls)
Init ==
    /\ start_urls \in SeqsUpTo(SeedChoices, MaxSeeds)
    /\ max_records \in 1..MaxCap
    /\ parallel_arg \in ParallelChoices
    /\ parallel_requests = WorkerCount(parallel_arg)
    /\ web \in Webs
    /\ pc = IF start_urls = <<>> THEN "truncate" ELSE "prepare"
    /\ seed_i = 1
    /\ listing_urls = <<>>
    /\ collected = <<>>
    /\ visited_pages = {}
    /\ next_url = None
    /\ urls = <<>>
    /\ futures = <<>>
    /\ results = <<>>
    /\ gets = <<>>
    /\ proxies_arg = ScrapeProxies
    /\ env = [HTTP_PROXIES |-> None, HTTPS_PROXIES |-> None]
    /\ _proxies = InitProxies(proxies_arg, env)
    /\ _iterator = InitIterator(_proxies)
    /\ _lock = 0 /\ tpc = <<>> /\ tproxy = <<>> /\ calls = <<>> /\ returned = <<>>
    /\ IdleDealer
    /\ IdleMain
    /\ IdleNorm

Next ==
    \/ PrepareSeed
    \/ ExpandStop
    \/ Expand
    \/ Dispatch
    \/ Start
    \/ Finish
    \/ Gather
    \/ Return

Spec == Init /\ [][Next]_vars

\* _prepare_listing_urls alone: the thread that runs it keeps running, and
\* every GET returns or times out
NextPrepare ==
    \/ PrepareSeed
    \/ ExpandStop
    \/ Expand

SpecPrepare == Init /\ [][NextPrepare]_vars /\ WF_vars(NextPrepare)

(***************************************************************************)
(* Properties of scrape.                                                   *)
(***************************************************************************)
Tasks == 1..Len(futures)

DetailGets == {n \in 1..Len(gets) : gets[n].stage = "detail"}

SearchGets == {n \in 1..Len(gets) : gets[n].stage = "search"}

\* the task's GET ended in a requests.RequestException
FetchFailed(k) == futures[k].outcome = "error"

\* the task's GET received a 2xx response
FetchSucceeded(k) == futures[k].outcome \in {"empty", "parse_fault", "record"}

RecordsFor(u) == {n \in 1..Len(results) : results[n].url = u}

\* C1: for every seed list and positive max_records, the prepared list has at
\* most max_records entries, at most that many tasks are submitted and GETs
\* issued for them, and at most that many records are returned.
C1_CapEnforced ==
    /\ Len(urls) <= max_records
    /\ Len(futures) <= max_records
    /\ Cardinality(DetailGets) <= max_records
    /\ Len(results) <= max_records

\* a run whose seeds gave more URLs than the cap and that returned cap records
C1_Witness ==
    /\ pc = "done"
    /\ Len(listing_urls) > max_records
    /\ Len(results) = max_records

\* C2 (as claimed): when exactly one of the K fetches failed and the other
\* K-1 received a 2xx response, scrape returns exactly K-1 records.
C2_OneFailureOfK ==
    (/\ pc = "done"
     /\ Cardinality({k \in Tasks : FetchFailed(k)}) = 1
     /\ \A k \in Tasks : FetchFailed(k) \/ FetchSucceeded(k))
    => Len(results) = Len(urls) - 1

\* C3 (as claimed): no failure tied to one URL, in the expansion or in a
\* worker, makes scrape raise.
C3_NoFailureAborts == pc # "raised"

\* the pages of the expansion in progress whose body was parsed, in order
RECURSIVE PagesParsed(_)
PagesParsed(n) ==
    IF n = 0 THEN <<>>
    ELSE IF gets[n].stage = "search" /\ gets[n].seed = seed_i /\ gets[n].resp = "ok"
        THEN Append(PagesParsed(n - 1), gets[n].url)
    ELSE PagesParsed(n - 1)

\* their detail URLs, de-duplicated in page-then-anchor order
RECURSIVE UrlsOfPages(_)
UrlsOfPages(ps) ==
    IF ps = <<>> THEN <<>>
    ELSE Merge(UrlsOfPages(SubSeq(ps, 1, Len(ps) - 1)), web[ps[Len(ps)]].anchors)

C4_NoPageFetchedTwice ==
    \A n, m \in SearchGets :
        (n # m /\ gets[n].seed = gets[m].seed) => gets[n].url # gets[m].url

C4_CollectedSoFar == pc = "expand" => collected = UrlsOfPages(PagesParsed(Len(gets)))

C4_CycleStopReturns ==
    (pc = "expand" /\ LoopCondition /\ next_url \in visited_pages)
    => (pc' \in {"prepare", "truncate"} /\ Range(collected) \subseteq Range(listing_urls'))

\* C4: the expansion of a search seed ends on every page graph, also one
\* whose next links form a cycle or a self-loop; no page is fetched twice
\* within one expansion; at a detected cycle the URLs collected from the
\* pages parsed so far are handed back to the accumulator.
C4_ExpansionTerminates ==
    /\ []C4_NoPageFetchedTwice
    /\ []C4_CollectedSoFar
    /\ [][C4_CycleStopReturns]_vars
    /\ (pc = "expand") ~> (pc # "expand")

\* the loop is about to meet a page it has visited, with URLs in hand
C4_Witness ==
    /\ pc = "expand"
    /\ LoopCondition
    /\ next_url \in visited_pages
    /\ collected # <<>>

\* C5 (as claimed): once the accumulator holds max_records URLs, no further
\* search-results page is fetched, whichever seed kind filled it.
C5_NoSearchFetchAtCap ==
    [][Len(listing_urls) >= max_records => SearchGets' = SearchGets]_vars

\* C6 (as claimed): the returned sequence holds exactly one record for every
\* dispatched URL whose GET got a 2xx response and whose extraction raised no
\* fault, none for a URL whose fetch failed, and none for any other URL.
C6_RecordPerSuccess ==
    pc = "done" =>
        /\ \A k \in Tasks :
              futures[k].outcome \in {"empty", "record"}
                  => Cardinality(RecordsFor(urls[k])) = 1
        /\ \A k \in Tasks : FetchFailed(k) => RecordsFor(urls[k]) = {}
        /\ \A n \in 1..Len(results) : results[n].url \in Range(urls)

(***************************************************************************)
(* ProxyManager: construction, and get_next called from several threads.   *)
(***************************************************************************)
Threads == {1, 2}

\* entries of the explicit list: "", " " and "b"
ExplicitChoices == {<<>>, <<" ">>, <<"b">>}

\* values of the two environment variables: unset, or a short string
HttpChoices == {None} \cup SeqsUpTo({"a", " ", ","}, MaxEnvLen)
HttpsChoices == {None, <<"c">>, <<" ", ",", "c", " ">>}

\* {"http": proxy, "https": proxy}
ProxyDict(proxy) == <<"http", proxy, "https", proxy>>

InitProxy ==
    /\ proxies_arg \in SeqsUpTo(ExplicitChoices, MaxExplicit)
    /\ env \in [HTTP_PROXIES : HttpChoices, HTTPS_PROXIES : HttpsChoices]
    /\ _proxies = <<>> /\ _iterator = None /\ _lock = 0
    /\ tpc = <<>> /\ tproxy = <<>> /\ calls = <<>> /\ returned = <<>>
    /\ IdleScrape
    /\ IdleDealer
    /\ IdleMain
    /\ IdleNorm

\* lines 17-39: __init__; the threads that share the manager start after it
ProxyManagerInit ==
    /\ tpc = <<>>
    /\ _proxies' = InitProxies(proxies_arg, env)
    /\ _iterator' = InitIterator(InitProxies(proxies_arg, env))
    /\ _lock' = 0
    /\ tpc' = [t \in Threads |-> "idle"]
    /\ tproxy' = [t \in Threads |-> [proxy |-> None, slot |-> 0]]
    /\ UNCHANGED <<proxies_arg, env, calls, returned>>
    /\ UNCHANGED <<scrapeVars, dealerVars, mainVars, normVars>>

InGetNext == {t \in DOMAIN tpc : tpc[t] # "idle"}

\* lines 48-49: "if not self._iterator: return None"
GetNextEnter(t) ==
    /\ tpc # <<>>
    /\ tpc[t] = "idle"
    /\ Len(returned) + Cardinality(InGetNext) < MaxCalls
    /\ IF _iterator = None
          THEN /\ returned' = Append(returned, [thread |-> t, slot |-> 0, value |-> None])
               /\ UNCHANGED tpc
          ELSE /\ tpc' = [tpc EXCEPT ![t] = "acquire"]
               /\ UNCHANGED returned
    /\ UNCHANGED <<proxies_arg, env, _proxies, _iterator, _lock, tproxy, calls>>
    /\ UNCHANGED <<scrapeVars, dealerVars, mainVars, normVars>>

\* line 50: "with self._lock" entered
Acquire(t) ==
    /\ tpc # <<>>
    /\ tpc[t] = "acquire"
    /\ _lock = 0
    /\ _lock' = t
    /\ tpc' = [tpc EXCEPT ![t] = "locked"]
    /\ UNCHANGED <<proxies_arg, env, _proxies, _iterator, tproxy, calls, returned>>
    /\ UNCHANGED <<scrapeVars, dealerVars, mainVars, normVars>>

\* line 51: proxy = next(self._iterator, None)
NextItem(t) ==
    /\ tpc # <<>>
    /\ tpc[t] = "locked"
    /\ tproxy' = [tproxy EXCEPT ![t] = [proxy |-> CycleItem(_proxies, _iterator),
                                        slot |-> Len(calls) + 1]]
    /\ calls' = Append(calls, [thread |-> t, pos |-> _iterator[2],
                               item |-> CycleItem(_proxies, _iterator)])
    /\ _iterator' = CycleAdvance(_iterator, Len(_proxies))
    /\ tpc' = [tpc EXCEPT ![t] = "release"]
    /\ UNCHANGED <<proxies_arg, env, _proxies, _lock, returned>>
    /\ UNCHANGED <<scrapeVars, dealerVars, mainVars, normVars>>

\* line 51: the with block is left
Release(t) ==
    /\ tpc # <<>>
    /\ tpc[t] = "release"
    /\ _lock' = 0
    /\ tpc' = [tpc EXCEPT ![t] = "return"]
    /\ UNCHANGED <<proxies_arg, env, _proxies, _iterator, tproxy, calls, returned>>
    /\ UNCHANGED <<scrapeVars, dealerVars, mainVars, normVars>>

\* lines 52-57: None for a falsy proxy, else the dict
GetNextReturn(t) ==
    /\ tpc # <<>>
    /\ tpc[t] = "return"
    /\ returned' = Append(returned,
                          [thread |-> t, slot |-> tproxy[t].slot,
                           value |-> IF ~Truthy(tproxy[t].proxy) THEN None
                                     ELSE ProxyDict(tproxy[t].proxy)])
    /\ tpc' = [tpc EXCEPT ![t] = "idle"]
    /\ UNCHANGED <<proxies_arg, env, _proxies, _iterator, _lock, tproxy, calls>>
    /\ UNCHANGED <<scrapeVars, dealerVars, mainVars, normVars>>

Enter == \E t \in Threads : GetNextEnter(t)
Lock == \E t \in Threads : Acquire(t)
Advance == \E t \in Threads : NextItem(t)
Unlock == \E t \in Threads : Release(t)
Leave == \E t \in Threads : GetNextReturn(t)

NextProxy ==
    \/ ProxyManagerInit
    \/ Enter
    \/ Lock
    \/ Advance
    \/ Unlock
    \/ Leave

SpecProxy == InitProxy /\ [][NextProxy]_vars

(***************************************************************************)
(* Properties of ProxyManager.                                             *)
(***************************************************************************)
\* the endpoint at 0-based position q of the insertion-ordered list
EndpointAt(q) == _proxies[q + 1]

CallsAt(q) == {j \in 1..Len(calls) : calls[j].pos = q}

\* C7: with n >= 1 endpoints, under every interleaving the j-th advance of
\* the cursor hands out the endpoint at position (j-1) mod n, every caller
\* returns the endpoint of its own advance, and after m advances every
\* position was handed out floor(m/n) or ceil(m/n) times.
C7_RoundRobin ==
    LET n == Len(_proxies)
        m == Len(calls)
    IN  /\ \A j \in 1..m :
              /\ calls[j].pos = (j - 1) % n
              /\ calls[j].item = EndpointAt((j - 1) % n)
        /\ \A r \in 1..Len(returned) :
              returned[r].slot > 0 =>
                  /\ returned[r].value = ProxyDict(EndpointAt((returned[r].slot - 1) % n))
                  /\ calls[returned[r].slot].thread = returned[r].thread
        /\ \A r1, r2 \in 1..Len(returned) :
              (r1 # r2 /\ returned[r1].slot > 0) => returned[r1].slot # returned[r2].slot
        /\ \A q \in 0..(n - 1) :
              Cardinality(CallsAt(q)) \in {m \div n, (m + n - 1) \div n}

\* both threads advanced the cursor, and it wrapped around
C7_Witness ==
    /\ Len(_proxies) >= 2
    /\ Len(calls) > Len(_proxies)
    /\ {calls[j].thread : j \in 1..Len(calls)} = Threads
    /\ Len(returned) = Len(calls)

\* an entry that is empty or holds only whitespace
Blank(p) == \A k \in 1..Len(p) : p[k] = " "

NotBlank(p) == ~Blank(p)

EnvValues(raw) == IF raw = None THEN <<>> ELSE StripAll(split(raw, <<>>))

\* the endpoint list as claimed: the three sources in order, blank entries dropped
ClaimedEndpoints ==
    SelectSeq(proxies_arg \o EnvValues(env.HTTP_PROXIES) \o EnvValues(env.HTTPS_PROXIES),
              NotBlank)

\* C8 (as claimed): the endpoint list is the explicit list, then the values
\* of HTTP_PROXIES, then those of HTTPS_PROXIES, with every empty or
\* whitespace-only entry of all three sources dropped; with an empty list
\* every get_next returns None.
C8_EndpointList ==
    tpc # <<>> =>
        /\ _proxies = ClaimedEndpoints
        /\ _proxies = <<>> => \A r \in 1..Len(returned) : returned[r].value = None

(***************************************************************************)
(* DealerExtractor.build_summary.                                          *)
(***************************************************************************)
UnknownDealer == <<"Unknown dealer">>

\* dealerName: absent, "", " ", "A", " A " and "B"
NameChoices == {None, <<>>, <<" ">>, <<"A">>, <<" ", "A", " ">>, <<"B">>}

RecordChoices ==
    [dealerName : NameChoices,
     location : {<<"Bonn">>, <<"Kiel">>},
     dealerRatings : {None, <<"5">>}]

\* a key computed without strip()
DealerKeyUnstripped(rec) ==
    IF ~Truthy(rec.dealerName) THEN UnknownDealer ELSE rec.dealerName

\* lines 18-20: (rec.get("dealerName") or "").strip(), or the sentinel
DealerKey(rec) ==
    LET dealer_name == strip(IF Truthy(rec.dealerName) THEN rec.dealerName ELSE <<>>)
    IN  IF ~Truthy(dealer_name) THEN UnknownDealer ELSE dealer_name

\* d[key] = default, whether or not the key is there
Overwrite(d, key, default) == (key :> default) @@ d

\* dict.setdefault: the dict, with default stored only under a new key
SetDefault(d, key, default) == IF key \in DOMAIN d THEN d ELSE (key :> default) @@ d

\* counter[dealer_name] of a defaultdict(int)
CountOf(key) == IF key \in DOMAIN counter THEN counter[key] ELSE 0

InitDealer ==
    /\ listings \in SeqsUpTo(RecordChoices, MaxListings)
    /\ rec_i = 1
    /\ summary = <<>>
    /\ counter = <<>>
    /\ IdleScrape
    /\ IdleProxy
    /\ IdleMain
    /\ IdleNorm

\* lines 17-32: one record of the for-loop
BuildStep ==
    /\ rec_i <= Len(listings)
    /\ LET rec == listings[rec_i]
           dealer_name == DealerKey(rec)
           count == CountOf(dealer_name) + 1
           entries == SetDefault(summary, dealer_name,
                                 [dealerName |-> dealer_name,
                                  location |-> rec.location,
                                  dealerRatings |-> rec.dealerRatings,
                                  listingCount |-> 0])
       IN  /\ counter' = (dealer_name :> count) @@ counter
           /\ summary' = [entries EXCEPT ![dealer_name].listingCount = count]
    /\ rec_i' = rec_i + 1
    /\ UNCHANGED listings
    /\ UNCHANGED <<scrapeVars, proxyVars, mainVars, normVars>>

NextDealer == BuildStep

SpecDealer == InitDealer /\ [][NextDealer]_vars

(***************************************************************************)
(* Properties of build_summary.                                            *)
(***************************************************************************)
\* the records the loop has processed
Processed == 1..(rec_i - 1)

SummaryBuilt == rec_i > Len(listings)

\* the key as claimed: the trimmed name, or the sentinel for a name that is
\* absent, empty or whitespace-only
ClaimedKey(rec) ==
    IF rec.dealerName = None \/ Blank(rec.dealerName) THEN UnknownDealer
    ELSE strip(rec.dealerName)

RecordsOf(key) == {n \in Processed : ClaimedKey(listings[n]) = key}

First(S) == CHOOSE n \in S : \A o \in S : n <= o

Last(S) == CHOOSE n \in S : \A o \in S : n >= o

RECURSIVE SumCounts(_)
SumCounts(keys) ==
    IF keys = {} THEN 0
    ELSE LET key == CHOOSE x \in keys : TRUE
         IN  summary[key].listingCount + SumCounts(keys \ {key})

\* C10: the summary has one key per distinct trimmed dealer name, absent,
\* empty and whitespace-only names sharing the key "Unknown dealer"; each
\* listingCount is the number of records of that name, and the counts sum
\* to the number of records.
C10_KeysAndCounts ==
    /\ DOMAIN summary = {ClaimedKey(listings[n]) : n \in Processed}
    /\ \A key \in DOMAIN summary :
          /\ summary[key].dealerName = key
          /\ summary[key].listingCount = Cardinality(RecordsOf(key))
    /\ SumCounts(DOMAIN summary) = Cardinality(Processed)

\* blank names of two kinds under the sentinel, beside a padded name
C10_Witness ==
    /\ SummaryBuilt
    /\ \E a, b, c \in Processed :
          /\ listings[a].dealerName = None
          /\ listings[b].dealerName = <<" ">>
          /\ listings[c].dealerName = <<" ", "A", " ">>
    /\ summary[UnknownDealer].listingCount = 2
    /\ summary[<<"A">>].listingCount = 1

(***************************************************************************)
(* The worker pool on its own: a run whose seeds are all detail URLs.      *)
(***************************************************************************)
MaxTasks == 3       \* longest seed list of a pool run

\* line 21: the default of max_records
DefaultMaxRecords == 300

DetailChoices == {d1, d2, d3}

\* the configured parallelRequests values of a pool run
PoolArgChoices == {-1, 0, 2}

InitPool ==
    /\ start_urls \in SeqsUpTo(DetailChoices, MaxTasks)
    /\ max_records = DefaultMaxRecords
    /\ parallel_arg \in PoolArgChoices
    /\ parallel_requests = WorkerCount(parallel_arg)
    /\ web \in {w \in Webs : w[s1].anchors = <<d3>> /\ w[s1].next = None /\ w[s2].next = None}
    /\ pc = IF start_urls = <<>> THEN "truncate" ELSE "prepare"
    /\ seed_i = 1
    /\ listing_urls = <<>>
    /\ collected = <<>>
    /\ visited_pages = {}
    /\ next_url = None
    /\ urls = <<>>
    /\ futures = <<>>
    /\ results = <<>>
    /\ gets = <<>>
    /\ proxies_arg = ScrapeProxies
    /\ env = [HTTP_PROXIES |-> None, HTTPS_PROXIES |-> None]
    /\ _proxies = InitProxies(proxies_arg, env)
    /\ _iterator = InitIterator(_proxies)
    /\ _lock = 0 /\ tpc = <<>> /\ tproxy = <<>> /\ calls = <<>> /\ returned = <<>>
    /\ IdleDealer
    /\ IdleMain
    /\ IdleNorm

NextPool ==
    \/ PrepareSeed
    \/ Dispatch
    \/ Start
    \/ Finish
    \/ Gather
    \/ Return

\* the calling thread and the pool threads keep running, and every GET
\* returns or times out
SpecPool == InitPool /\ [][NextPool]_vars /\ WF_vars(NextPool)

\* max(1, configured parallel_requests)
ClaimedWorkers == IF parallel_arg > 1 THEN parallel_arg ELSE 1

C11_AtMostWorkers == Cardinality(Running) <= ClaimedWorkers

C11_OneWorkerAtZero == parallel_arg <= 0 => parallel_requests = 1

C11_AllExecuted ==
    /\ \A k \in Tasks : Finished(k)
    /\ \A k \in Tasks : \E n \in DetailGets : gets[n].url = urls[k]

\* C11: at every moment at most max(1, configured parallel_requests) tasks
\* are executing; a configured value of zero or below gives a pool of exactly
\* one worker; and every dispatched task is eventually executed.
C11_BoundedPool ==
    /\ []C11_AtMostWorkers
    /\ []C11_OneWorkerAtZero
    /\ (pc = "pool") ~> (pc = "done" /\ C11_AllExecuted)

\* configured below one: a task runs while another waits and a third is done
C11_Witness ==
    /\ parallel_arg <= 0
    /\ pc = "pool"
    /\ Cardinality(Running) = 1
    /\ \E k \in Tasks : futures[k].state = "pending"
    /\ \E k \in Tasks : Finished(k)

(***************************************************************************)
(* main: settings are loaded and checked, scrape is called, the records    *)
(* are exported.  The command line gives --config and --input only.        *)
(***************************************************************************)
\* lines 13-14 of main.py, and the fallback of line 282
DEFAULT_MAX_RECORDS == 300
DEFAULT_OUTPUT_FORMAT == <<"json">>
DefaultParallelRequests == 8

\* a key that a settings dict does not have, for a list-valued key
Absent == <<None>>

\* the list of start URLs a settings file may hold
ConfigUrls == <<<<" ">> \o d2 \o <<" ">>, s1>>

\* the dict a JSON settings file decodes to; maxRecords and outputFormat are
\* strings of characters resp. one word, None when the key is missing
SettingsChoices ==
    [maxRecords : {None, <<"1">>, <<"x">>},
     outputFormat : {None, <<"CSV">>, <<"pdf">>},
     startUrls : {Absent, <<>>, ConfigUrls}]

EmptySettings == [maxRecords |-> None, outputFormat |-> None, startUrls |-> Absent]

FileChoices(statuses) ==
    {[status |-> "ok", content |-> c] : c \in SettingsChoices}
        \cup {[status |-> st, content |-> EmptySettings] : st \in statuses}

\* data/test_urls.txt: missing, a comment line only, or one URL
TxtChoices == {Absent, <<<<"#", "x">>>>, <<d2>>}

\* the site that a run of main crawls
MainWeb ==
    CHOOSE w \in Webs : w[s1].anchors = <<d3>> /\ w[s1].next = s2 /\ w[s2].next = None

\* lines 46-56: merge_settings on flat dicts: a key of override wins unless
\* it is missing or None
merge_settings(base, override) ==
    [maxRecords |-> IF override.maxRecords # None THEN override.maxRecords
                    ELSE base.maxRecords,
     outputFormat |-> IF override.outputFormat # None THEN override.outputFormat
                      ELSE base.outputFormat,
     startUrls |-> IF override.startUrls # Absent THEN override.startUrls
                   ELSE base.startUrls]

Digits == {"0", "1", "2", "3", "4", "5", "6", "7", "8", "9"}

DigitValue(c) == CHOOSE n \in 0..9 : c = <<"0", "1", "2", "3", "4", "5", "6", "7", "8", "9">>[n + 1]

\* int(str) succeeds: the string is a non-empty run of digits
IsNumeric(v) == v # <<>> /\ \A k \in 1..Len(v) : v[k] \in Digits

\* int(str)
RECURSIVE int(_)
int(v) == IF v = <<>> THEN 0 ELSE 10 * int(SubSeq(v, 1, Len(v) - 1)) + DigitValue(v[Len(v)])

\* lines 88-181: the formats export_data knows
SupportedFormats == {"json", "csv", "xml", "rss", "html"}

\* line 85: (fmt or DEFAULT_OUTPUT_FORMAT).lower()
ExportFormat(fmt) == lower((IF Truthy(fmt) THEN fmt ELSE DEFAULT_OUTPUT_FORMAT)[1])

\* lines 62-64: the stripped non-empty entries of startUrls
ListedUrls(cfg) ==
    IF cfg.startUrls = Absent THEN <<>>
    ELSE SelectSeq(StripAll(cfg.startUrls), NonEmpty)

\* lines 71-74: a line that is not empty and is no comment
UsableLine(line) == line # <<>> /\ line[1] # "#"

\* lines 67-74: the usable lines of test_urls.txt
TxtUrls(txt) == IF txt = Absent THEN <<>> ELSE SelectSeq(StripAll(txt), UsableLine)

\* lines 58-82: read_start_urls, <<>> where it raises
read_start_urls(cfg, txt) ==
    IF ListedUrls(cfg) # <<>> THEN ListedUrls(cfg) ELSE TxtUrls(txt)

InitMain ==
    /\ main_pc = "load_config"
    /\ config_file \in FileChoices({"missing", "malformed"})
    /\ input_file \in FileChoices({"not_given", "missing", "malformed"})
    /\ txt_file \in TxtChoices
    /\ settings = <<>>
    /\ output_format = None
    /\ start_urls = <<>> /\ max_records = 1 /\ parallel_requests = 1
    /\ parallel_arg = 1
    /\ web = MainWeb
    /\ pc = "idle" /\ seed_i = 1 /\ listing_urls = <<>>
    /\ collected = <<>> /\ visited_pages = {} /\ next_url = None
    /\ urls = <<>> /\ futures = <<>> /\ results = <<>> /\ gets = <<>>
    /\ IdleProxy
    /\ IdleDealer
    /\ IdleNorm

\* lines 237-244: the settings file; a missing one gives {}
LoadConfig ==
    /\ main_pc = "load_config"
    /\ IF config_file.status = "malformed"
          THEN main_pc' = "SystemExit" /\ UNCHANGED settings
          ELSE main_pc' = "load_input" /\ settings' = config_file.content
    /\ UNCHANGED <<config_file, input_file, txt_file, output_format>>
    /\ UNCHANGED <<scrapeVars, proxyVars, dealerVars, normVars>>

\* lines 247-254: the optional input file, merged over the settings
LoadInput ==
    /\ main_pc = "load_input"
    /\ IF input_file.status \in {"missing", "malformed"}
          THEN main_pc' = "SystemExit" /\ UNCHANGED settings
          ELSE /\ main_pc' = "settings"
               /\ settings' = merge_settings(settings, input_file.content)
    /\ UNCHANGED <<config_file, input_file, txt_file, output_format>>
    /\ UNCHANGED <<scrapeVars, proxyVars, dealerVars, normVars>>

\* lines 264-266: int(maxRecords or default) raises ValueError on a string
\* that is no number; the format is taken as it is
ReadSettings ==
    /\ main_pc = "settings"
    /\ IF Truthy(settings.maxRecords) /\ ~IsNumeric(settings.maxRecords)
          THEN main_pc' = "ValueError" /\ UNCHANGED <<max_records, output_format>>
          ELSE /\ main_pc' = "read_start_urls"
               /\ max_records' = IF Truthy(settings.maxRecords)
                                    THEN int(settings.maxRecords)
                                    ELSE DEFAULT_MAX_RECORDS
               /\ output_format' = IF Truthy(settings.outputFormat)
                                      THEN settings.outputFormat
                                      ELSE DEFAULT_OUTPUT_FORMAT
    /\ UNCHANGED <<config_file, input_file, txt_file, settings>>
    /\ UNCHANGED <<start_urls, parallel_requests, parallel_arg, web, pc, seed_i,
                   listing_urls, collected, visited_pages, next_url, urls,
                   futures, results, gets>>
    /\ UNCHANGED <<proxyVars, dealerVars, normVars>>

\* lines 268-271: read_start_urls, SystemExit when it raises
ReadStartUrls ==
    /\ main_pc = "read_start_urls"
    /\ IF read_start_urls(settings, txt_file) = <<>>
          THEN main_pc' = "SystemExit" /\ UNCHANGED start_urls
          ELSE /\ main_pc' = "construct"
               /\ start_urls' = read_start_urls(settings, txt_file)
    /\ UNCHANGED <<config_file, input_file, txt_file, settings, output_format>>
    /\ UNCHANGED <<max_records, parallel_requests, parallel_arg, web, pc, seed_i,
                   listing_urls, collected, visited_pages, next_url, urls,
                   futures, results, gets>>
    /\ UNCHANGED <<proxyVars, dealerVars, normVars>>

\* lines 273-301: ProxyManager and ListingExtractor are built (no proxies and
\* no parallelRequests in the settings), and scrape is called
Construct ==
    /\ main_pc = "construct"
    /\ main_pc' = "scraping"
    /\ proxies_arg' = <<>>
    /\ _proxies' = InitProxies(<<>>, env)
    /\ _iterator' = InitIterator(InitProxies(<<>>, env))
    /\ parallel_arg' = DefaultParallelRequests
    /\ parallel_requests' = WorkerCount(DefaultParallelRequests)
    /\ pc' = "prepare"
    /\ UNCHANGED <<config_file, input_file, txt_file, settings, output_format>>
    /\ UNCHANGED <<start_urls, max_records, web, seed_i, listing_urls, collected,
                   visited_pages, next_url, urls, futures, results, gets>>
    /\ UNCHANGED <<env, _lock, tpc, tproxy, calls, returned>>
    /\ UNCHANGED <<dealerVars, normVars>>

\* line 301: an exception of scrape is not caught by main
ScrapeRaised ==
    /\ main_pc = "scraping"
    /\ pc = "raised"
    /\ main_pc' = "raised"
    /\ UNCHANGED <<config_file, input_file, txt_file, settings, output_format>>
    /\ UNCHANGED <<scrapeVars, proxyVars, dealerVars, normVars>>

\* lines 304-314: export_data; its ValueError for an unknown format becomes
\* SystemExit
Export ==
    /\ main_pc = "scraping"
    /\ pc = "done"
    /\ main_pc' = IF ExportFormat(output_format) \in SupportedFormats
                     THEN "returned" ELSE "SystemExit"
    /\ UNCHANGED <<config_file, input_file, txt_file, settings, output_format>>
    /\ UNCHANGED <<scrapeVars, proxyVars, dealerVars, normVars>>

NextMain ==
    \/ LoadConfig
    \/ LoadInput
    \/ ReadSettings
    \/ ReadStartUrls
    \/ Construct
    \/ PrepareSeed
    \/ ExpandStop
    \/ Expand
    \/ Dispatch
    \/ Start
    \/ Finish
    \/ Gather
    \/ Return
    \/ ScrapeRaised
    \/ Export

SpecMain == InitMain /\ [][NextMain]_vars

\* the settings main works with
Effective ==
    merge_settings(IF config_file.status = "ok" THEN config_file.content ELSE EmptySettings,
                   IF input_file.status = "ok" THEN input_file.content ELSE EmptySettings)

MalformedJson ==
    config_file.status = "malformed" \/ input_file.status \in {"missing", "malformed"}

NonNumericMaxRecords == Truthy(Effective.maxRecords) /\ ~IsNumeric(Effective.maxRecords)

UnsupportedFormat ==
    /\ Truthy(Effective.outputFormat)
    /\ lower(Effective.outputFormat[1]) \notin SupportedFormats

NoStartUrls == read_start_urls(Effective, txt_file) = <<>>

\* C12 (as claimed): with a missing or invalid setting (no start URLs,
\* malformed config or input JSON, non-numeric maxRecords, unsupported
\* output format in the config) the process ends before the first HTTP
\* request: no GET is ever issued and main does not complete.
C12_ConfigErrorBeforeNetwork ==
    (main_pc # "idle"
     /\ (MalformedJson \/ NonNumericMaxRecords \/ UnsupportedFormat \/ NoStartUrls))
    => (gets = <<>> /\ main_pc # "returned")

(***************************************************************************)
(* normalize_listing: the list fields.  A value carries its Python type:   *)
(* [kind |-> "none" | "str" | "list" | "int", val |-> ...].                *)
(***************************************************************************)
MaxItems == 2       \* longest list held by a raw field

FeatureKeys == <<"comfort", "media", "safety", "extras">>

\* re.sub(r"\s+", " ", text): a run of blanks becomes one blank
RECURSIVE collapse(_)
collapse(s) ==
    IF Len(s) < 2 THEN s
    ELSE IF s[1] = " " /\ s[2] = " " THEN collapse(Tail(s))
    ELSE <<s[1]>> \o collapse(Tail(s))

\* lines 15-20: clean_text
clean_text(value) ==
    IF value = None THEN None
    ELSE IF collapse(strip(value)) = <<>> THEN None
    ELSE collapse(strip(value))

\* re.split(r"[;,]", value): the pieces between the separators
RECURSIVE re_split(_, _)
re_split(s, cur) ==
    IF s = <<>> THEN <<cur>>
    ELSE IF Head(s) \in {";", ","} THEN <<cur>> \o re_split(Tail(s), <<>>)
    ELSE re_split(Tail(s), Append(cur, Head(s)))

\* [clean_text(v) for v in vs if clean_text(v)]
RECURSIVE CleanAll(_)
CleanAll(vs) ==
    IF vs = <<>> THEN <<>>
    ELSE IF Truthy(clean_text(Head(vs))) THEN <<clean_text(Head(vs))>> \o CleanAll(Tail(vs))
    ELSE CleanAll(Tail(vs))

\* str(value) of an int from 0 to 9
str(n) == <<<<"0", "1", "2", "3", "4", "5", "6", "7", "8", "9">>[n + 1]>>

\* lines 166-175: one feature field
NormalizeFeature(value) ==
    IF value.kind = "list" THEN CleanAll(value.val)
    ELSE IF value.kind = "str" THEN CleanAll(re_split(value.val, <<>>))
    ELSE IF value.kind = "none" THEN <<>>
    ELSE <<clean_text(str(value.val))>>

\* an image kept whether or not it was seen
AddAlways(normalized, img) ==
    IF Truthy(img) THEN Append(normalized, img) ELSE normalized

\* lines 185-188: "if img and img not in seen": seen holds what normalized holds
AddUnseen(normalized, img) ==
    IF Truthy(img) /\ img \notin Range(normalized) THEN Append(normalized, img)
    ELSE normalized

\* lines 184-188: the loop over images
RECURSIVE UniqueImages(_, _)
UniqueImages(normalized, images) ==
    IF images = <<>> THEN normalized
    ELSE UniqueImages(AddUnseen(normalized, clean_text(Head(images))), Tail(images))

\* bool(value) of a raw field
TruthyValue(value) ==
    \/ value.kind \in {"str", "list"} /\ value.val # <<>>
    \/ value.kind = "int" /\ value.val # 0

\* lines 178-191: images
NormalizeImages(value) ==
    IF ~TruthyValue(value) THEN <<>>
    ELSE IF value.kind = "str" THEN UniqueImages(<<>>, <<value.val>>)
    ELSE IF value.kind = "list" THEN UniqueImages(<<>>, value.val)
    ELSE <<>>

\* the items of a raw list: "a", " a", " " and None
ItemChoices == {<<"a">>, <<" ", "a">>, <<" ">>, None}

NoneValue == [kind |-> "none", val |-> None]

\* the values a raw list field may hold
ValueChoices ==
    {NoneValue, [kind |-> "int", val |-> 7]}
        \cup {[kind |-> "str", val |-> v] :
                 v \in {<<>>, <<"a", ";", " ", "a", ",", " ", ";", "b", " ", " ", "c">>}}
        \cup {[kind |-> "list", val |-> l] : l \in SeqsUpTo(ItemChoices, MaxItems)}

\* fewer values, for the fields that go through the same loop body
FewChoices ==
    {NoneValue, [kind |-> "list", val |-> <<<<"a">>, <<"b">>, <<"a">>>>]}

\* the raw records given to normalize_listing
RawChoices ==
    [comfort : ValueChoices, media : FewChoices, safety : FewChoices,
     extras : FewChoices, images : ValueChoices]

\* line 102: listing = dict(listing)
InitNorm ==
    /\ raw_record \in RawChoices
    /\ listing = raw_record
    /\ norm_pc = "start"
    /\ IdleScrape
    /\ IdleProxy
    /\ IdleDealer
    /\ IdleMain

\* lines 164-193: the list fields are rewritten and the dict returned
Normalize ==
    /\ norm_pc = "start"
    /\ listing' = [comfort |-> NormalizeFeature(listing.comfort),
                   media |-> NormalizeFeature(listing.media),
                   safety |-> NormalizeFeature(listing.safety),
                   extras |-> NormalizeFeature(listing.extras),
                   images |-> NormalizeImages(listing.images)]
    /\ norm_pc' = "done"
    /\ UNCHANGED raw_record
    /\ UNCHANGED <<scrapeVars, proxyVars, dealerVars, mainVars>>

NextNorm == Normalize

SpecNorm == InitNorm /\ [][NextNorm]_vars

(***************************************************************************)
(* Properties of normalize_listing.                                        *)
(***************************************************************************)
ListKeys == {"comfort", "media", "safety", "extras", "images"}

NonEmptyStrings(l) == \A k \in 1..Len(l) : l[k] # None /\ ~Blank(l[k])

NoDuplicates(l) == \A j, k \in 1..Len(l) : j # k => l[j] # l[k]

\* the entries a raw value stands for, before cleaning
EntriesOf(key, value) ==
    IF value.kind = "list" THEN value.val
    ELSE IF value.kind = "str"
        THEN IF key = "images" THEN <<value.val>> ELSE re_split(value.val, <<>>)
    ELSE IF value.kind = "int" /\ key # "images" THEN <<str(value.val)>>
    ELSE <<>>

NotBlankEntry(e) == e # None /\ ~Blank(e)

RECURSIVE CleanEach(_)
CleanEach(es) == IF es = <<>> THEN <<>> ELSE <<clean_text(Head(es))>> \o CleanEach(Tail(es))

\* the non-blank entries of a raw value, cleaned, in input order
KeptEntries(key, value) == CleanEach(SelectSeq(EntriesOf(key, value), NotBlankEntry))

\* C13 (as claimed): after normalize_listing each of comfort, media, safety,
\* extras and images is a sequence of non-empty strings without duplicates,
\* and an absent field is the empty sequence.
C13_AllDeduplicated ==
    norm_pc = "done" =>
        \A key \in ListKeys :
            /\ NonEmptyStrings(listing[key])
            /\ NoDuplicates(listing[key])
            /\ raw_record[key].kind = "none" => listing[key] = <<>>

\* C13 (amended): each of the five fields is the sequence of its non-empty
\* cleaned entries in input order, the empty sequence when absent; images
\* keeps the first occurrence of each entry only, the four feature fields
\* keep repeated entries.
C13_OnlyImagesDeduplicated ==
    norm_pc = "done" =>
        /\ \A key \in ListKeys :
              /\ NonEmptyStrings(listing[key])
              /\ raw_record[key].kind = "none" => listing[key] = <<>>
        /\ \A key \in Range(FeatureKeys) :
              listing[key] = KeptEntries(key, raw_record[key])
        /\ NoDuplicates(listing.images)
        /\ listing.images = Merge(<<>>, KeptEntries("images", raw_record.images))

\* a feature list that kept a repeated entry beside an image list that dropped one
C13_Witness ==
    /\ norm_pc = "done"
    /\ ~NoDuplicates(listing.comfort)
    /\ Len(listing.images) = 1
    /\ raw_record.images.kind = "list"
    /\ Len(KeptEntries("images", raw_record.images)) = 2

(***************************************************************************)
(* Whole runs of scrape on a site of two linked search pages.              *)
(***************************************************************************)
\* the sites of these runs: page 1 links to page 2, which is the last
RunWebs == {w \in Webs : w[s1].next = s2 /\ w[s2].next = None}

InitRun ==
    /\ start_urls \in SeqsUpTo(SeedChoices, MaxSeeds)
    /\ max_records \in 1..MaxCap
    /\ parallel_arg \in ParallelChoices
    /\ parallel_requests = WorkerCount(parallel_arg)
    /\ web \in RunWebs
    /\ pc = IF start_urls = <<>> THEN "truncate" ELSE "prepare"
    /\ seed_i = 1
    /\ listing_urls = <<>>
    /\ collected = <<>>
    /\ visited_pages = {}
    /\ next_url = None
    /\ urls = <<>>
    /\ futures = <<>>
    /\ results = <<>>
    /\ gets = <<>>
    /\ proxies_arg = ScrapeProxies
    /\ env = [HTTP_PROXIES |-> None, HTTPS_PROXIES |-> None]
    /\ _proxies = InitProxies(proxies_arg, env)
    /\ _iterator = InitIterator(_proxies)
    /\ _lock = 0 /\ tpc = <<>> /\ tproxy = <<>> /\ calls = <<>> /\ returned = <<>>
    /\ IdleDealer
    /\ IdleMain
    /\ IdleNorm

SpecRun == InitRun /\ [][Next]_vars

(***************************************************************************)
(* Further properties of scrape.                                           *)
(***************************************************************************)
GetsOf(u) == {n \in DetailGets : gets[n].url = u}

\* C14: the list handed to the pool holds no URL twice, and in the
\* concurrent stage every URL of it is requested with exactly one GET: one
\* when its task starts, none before and none after, also when the fetch
\* failed.
C14_OneGetPerUrl ==
    /\ NoDuplicates(urls)
    /\ \A n \in DetailGets : gets[n].url \in Range(urls)
    /\ \A k \in Tasks :
          Cardinality(GetsOf(urls[k])) = IF futures[k].state = "pending" THEN 0 ELSE 1

\* two seeds named the same URLs, and a fetch of the pool failed
C14_Witness ==
    /\ pc = "done"
    /\ Len(urls) >= 2
    /\ \E k \in Tasks : FetchFailed(k)
    /\ \E n, m \in SearchGets :
          /\ n # m /\ gets[n].resp = "ok" /\ gets[m].resp = "ok"
          /\ Range(web[gets[n].url].anchors) \cap Range(web[gets[m].url].anchors) # {}

\* the first n elements of l
FirstN(l, n) == [k \in 1..(IF Len(l) < n THEN Len(l) ELSE n) |-> l[k]]

IsFirstOccurrence(l, k) == \A j \in 1..(k - 1) : l[j] # l[k]

\* l without the repetitions of its elements
RECURSIVE FirstOccurrences(_)
FirstOccurrences(l) ==
    IF l = <<>> THEN <<>>
    ELSE LET front == FirstOccurrences(SubSeq(l, 1, Len(l) - 1))
         IN  IF IsFirstOccurrence(l, Len(l)) THEN Append(front, l[Len(l)]) ELSE front

\* the search pages of seed i whose body was parsed, in order
RECURSIVE PagesParsedOf(_, _)
PagesParsedOf(i, n) ==
    IF n = 0 THEN <<>>
    ELSE IF gets[n].stage = "search" /\ gets[n].seed = i /\ gets[n].resp = "ok"
        THEN Append(PagesParsedOf(i, n - 1), gets[n].url)
    ELSE PagesParsedOf(i, n - 1)

\* the anchors of pages, page after page
RECURSIVE AnchorsOf(_)
AnchorsOf(ps) == IF ps = <<>> THEN <<>> ELSE web[Head(ps)].anchors \o AnchorsOf(Tail(ps))

\* what seed i contributed in this run
RunContribution(i) ==
    LET u == strip(start_urls[i])
    IN  IF u = <<>> THEN <<>>
        ELSE IF _is_detail_url(u) THEN <<u>>
        ELSE AnchorsOf(PagesParsedOf(i, Len(gets)))

\* the expansion of a search seed when every page is served: pages are
\* followed while there is a next link, the page is new and the count is
\* below the cap
RECURSIVE PagesFollowed(_, _, _)
PagesFollowed(page, ps, seen) ==
    IF page = None \/ page \in seen
          \/ Len(FirstOccurrences(AnchorsOf(ps))) >= max_records
       THEN ps
    ELSE PagesFollowed(web[page].next, Append(ps, page), seen \cup {page})

\* what seed i contributes when every page is served
ServedContribution(i) ==
    LET u == strip(start_urls[i])
    IN  IF u = <<>> THEN <<>>
        ELSE IF _is_detail_url(u) THEN <<u>>
        ELSE AnchorsOf(PagesFollowed(u, <<>>, {}))

\* contributions of the seeds 1..i, concatenated
RECURSIVE RunContributions(_)
RunContributions(i) ==
    IF i = 0 THEN <<>> ELSE RunContributions(i - 1) \o RunContribution(i)

RECURSIVE ServedContributions(_)
ServedContributions(i) ==
    IF i = 0 THEN <<>> ELSE ServedContributions(i - 1) \o ServedContribution(i)

AllServed == \A n \in SearchGets : gets[n].resp = "ok"

\* C15: the prepared list is the first max_records elements of the
\* first-occurrence de-duplication of the seeds' contributions concatenated
\* in seed order (a detail seed itself, a search seed its pages' anchors in
\* page-then-anchor order); when every page is served it is a function of
\* the seeds, the pages and the cap alone.
C15_PreparedList ==
    pc \in {"pool", "done"} =>
        /\ urls = FirstN(FirstOccurrences(RunContributions(Len(start_urls))), max_records)
        /\ AllServed =>
              urls = FirstN(FirstOccurrences(ServedContributions(Len(start_urls))),
                            max_records)

\* two seeds contributed, a URL came twice, and the list was cut at the cap
C15_Witness ==
    /\ pc = "pool"
    /\ AllServed
    /\ Len(start_urls) = 2
    /\ RunContribution(1) # <<>> /\ RunContribution(2) # <<>>
    /\ Len(FirstOccurrences(RunContributions(2))) < Len(RunContributions(2))
    /\ Len(FirstOccurrences(RunContributions(2))) > max_records
    /\ urls # RunContribution(1)

(***************************************************************************)
(* _prepare_listing_urls over longer seed lists.                           *)
(***************************************************************************)
MaxSeedsPrepare == 3    \* longest seed list of a preparation run

InitSeeds ==
    /\ start_urls \in SeqsUpTo(SeedChoices, MaxSeedsPrepare)
    /\ max_records \in 1..MaxCap
    /\ parallel_arg = DefaultParallelRequests
    /\ parallel_requests = WorkerCount(parallel_arg)
    /\ web \in Webs
    /\ pc = IF start_urls = <<>> THEN "truncate" ELSE "prepare"
    /\ seed_i = 1
    /\ listing_urls = <<>>
    /\ collected = <<>>
    /\ visited_pages = {}
    /\ next_url = None
    /\ urls = <<>>
    /\ futures = <<>>
    /\ results = <<>>
    /\ gets = <<>>
    /\ proxies_arg = ScrapeProxies
    /\ env = [HTTP_PROXIES |-> None, HTTPS_PROXIES |-> None]
    /\ _proxies = InitProxies(proxies_arg, env)
    /\ _iterator = InitIterator(_proxies)
    /\ _lock = 0 /\ tpc = <<>> /\ tproxy = <<>> /\ calls = <<>> /\ returned = <<>>
    /\ IdleDealer
    /\ IdleMain
    /\ IdleNorm

SpecSeeds == InitSeeds /\ [][NextPrepare]_vars

\* this step is a GET of a search page that ends in a RequestException
SearchFetchFails ==
    /\ pc = "expand"
    /\ Len(gets') = Len(gets) + 1
    /\ gets'[Len(gets')].resp = "error"

\* after a failed fetch no further page of the same seed is requested
C16_PaginationStops ==
    \A n, m \in SearchGets :
        (n < m /\ gets[n].seed = gets[m].seed) => gets[n].resp # "error"

\* the expansion ends without an exception and what it collected is merged
C16_PartialKept ==
    SearchFetchFails =>
        /\ pc' \in {"prepare", "truncate"}
        /\ Range(listing_urls') = Range(listing_urls) \cup Range(collected)

\* C16 (as claimed): when the fetch of a search page fails, pagination of
\* that seed stops without an exception, the URLs of its earlier pages are
\* kept in the accumulator, and the remaining seeds are still processed: the
\* for-loop goes on to the next seed.
C16_SeedsGoOn ==
    /\ []C16_PaginationStops
    /\ [][C16_PartialKept]_vars
    /\ [][(SearchFetchFails /\ seed_i < Len(start_urls))
             => (pc' = "prepare" /\ seed_i' = seed_i + 1)]_vars

\* C16 (amended): as above, and the remaining seeds are still processed
\* unless the accumulator now holds max_records URLs, in which case the
\* for-loop ends as it does after any expansion.
C16_SeedsGoOnBelowCap ==
    /\ []C16_PaginationStops
    /\ [][C16_PartialKept]_vars
    /\ [][(SearchFetchFails /\ seed_i < Len(start_urls))
             => IF Len(listing_urls') >= max_records
                   THEN pc' = "truncate"
                   ELSE pc' = "prepare" /\ seed_i' = seed_i + 1]_vars

\* a later page of a seed failed, its earlier URLs were merged, and the
\* loop stands at the next seed
C16_Witness ==
    /\ pc = "prepare"
    /\ gets # <<>>
    /\ gets[Len(gets)].resp = "error"
    /\ gets[Len(gets)].seed = seed_i - 1
    /\ collected # <<>>
    /\ Range(collected) \subseteq Range(listing_urls)

\* this step fetches a search page
PageFetched == pc = "expand" /\ SearchGets' # SearchGets

\* this step fetches a search page and parses its body
PageParsed ==
    /\ PageFetched
    /\ gets'[Len(gets')].resp = "ok"
    /\ pc' # "raised"

\* the pages parsed by the expansion that ran last
LastExpansionPages ==
    IF SearchGets = {} THEN <<>>
    ELSE PagesParsedOf(gets[Last(SearchGets)].seed, Len(gets))

\* the number of distinct detail URLs on a page
UrlCount(page) == Cardinality(Range(web[page].anchors))

C17_FetchOnlyBelowCap == PageFetched => Len(collected) < max_records

C17_WholePageAdded ==
    PageParsed =>
        /\ Range(web[next_url].anchors) \subseteq Range(collected')
        /\ collected' = FirstOccurrences(collected \o web[next_url].anchors)

C17_ExcessBounded ==
    LastExpansionPages # <<>> =>
        Len(collected) - max_records
            <= UrlCount(LastExpansionPages[Len(LastExpansionPages)]) - 1

C17_StopsWithoutNextLink ==
    (PageParsed /\ web[next_url].next = None) => pc' \in {"prepare", "truncate"}

\* C17: within one expansion a page is fetched only while the seed's own
\* count is below max_records; every URL of a fetched page is added, also
\* past the cap; so the result exceeds max_records by at most the URL count
\* of the last fetched page minus one; and the expansion ends after a page
\* without a next link, also below the cap.
C17_CapBetweenPages ==
    /\ [][C17_FetchOnlyBelowCap]_vars
    /\ [][C17_WholePageAdded]_vars
    /\ []C17_ExcessBounded
    /\ [][C17_StopsWithoutNextLink]_vars

\* an expansion that ended past the cap, by all but one URL of its last
\* page, on a page without a next link
C17_Witness ==
    /\ pc \in {"prepare", "truncate"}
    /\ LastExpansionPages # <<>>
    /\ Len(collected) > max_records
    /\ Len(collected) - max_records
          = UrlCount(LastExpansionPages[Len(LastExpansionPages)]) - 1
    /\ web[LastExpansionPages[Len(LastExpansionPages)]].next = None

\* the tasks whose future holds a record
WithRecord == {k \in Tasks : futures[k].state = "record"}

C18_AllFinishedAtReturn ==
    pc = "done" =>
        /\ Running = {}
        /\ \A k \in Tasks : Finished(k) /\ futures[k].taken
        /\ Cardinality(DetailGets) = Len(urls)
        /\ Len(results) = Cardinality(WithRecord)
        /\ {results[n].url : n \in 1..Len(results)} = {urls[k] : k \in WithRecord}

C18_ExpansionBeforePool ==
    /\ \A n \in SearchGets, m \in DetailGets : n < m
    /\ DetailGets # {} => pc \in {"pool", "done"}
    /\ pc \in {"pool", "done"} => seed_i > Len(start_urls) \/ CapReached(listing_urls)

C18_NoGetAfterReturn == pc = "done" => gets' = gets

C18_NoSearchGetInPool == pc \in {"pool", "done"} => SearchGets' = SearchGets

\* C18: scrape returns only after every dispatched task has finished: when
\* it returns no worker is running, every task's outcome is in the returned
\* list, and no GET is issued afterwards; the concurrent stage starts only
\* after the expansion of the seeds has ended.
C18_ReturnAfterAllTasks ==
    /\ []C18_AllFinishedAtReturn
    /\ [][C18_NoGetAfterReturn]_vars
    /\ []C18_ExpansionBeforePool
    /\ [][C18_NoSearchGetInPool]_vars

\* scrape has returned after an expansion and a pool in which one task gave
\* a record and another faulted
C18_Witness ==
    /\ pc = "done"
    /\ SearchGets # {}
    /\ \E k \in Tasks : futures[k].state = "record"
    /\ \E k \in Tasks : futures[k].state = "exception"
    /\ Len(results) = 1

====
